---- MODULE Spec2Model ----
(***************************************************************************)
(* Motion controller of the Waters Positive Pressure-96 processor.         *)
(*                                                                         *)
(* Three programs drive the same PCA9685 board through ServoKit:             *)
(*   pp96.py        the PressureProcessor class                            *)
(*   test_Waters.py the interactive stdin script                           *)
(*   cli.py         the command dispatcher, which runs one command on a    *)
(*                  PressureProcessor of its own                           *)
(* A behaviour runs one of them (prog).  Every channel write and every     *)
(* sleep is appended to log, the trace of the operation in progress.       *)
(*                                                                         *)
(* Angles are counted in 1/Unit of a degree, so that the float angle       *)
(* parameters of PressureProcessor can hold a value that is not a whole    *)
(* number of degrees.  Durations are counted in 1/99 of a millisecond,     *)
(* the denominator of the speed-to-delay map.                              *)
(***************************************************************************)
EXTENDS Integers, Sequences, FiniteSets, TLC

\* ---------------------------------------------------------------- bounds
\* angle resolution: values per degree
Unit == 2
\* failed channel writes per behaviour
MaxFaults == 1
\* a write inside a walk may fail within this many degrees of the walk's
\* start, or when it writes the walk's target
MaxFaultStep == 2
\* degrees a walk that has stepped over its target is followed before the
\* model stops following it
MaxOvershoot == 2

Deg(n) == n * Unit
Ms(n) == n * 99

\* ------------------------------------------------------------- constants
servo_1_channel == 0
servo_2_channel == 1
actuator_channel == 2
Channels == {servo_1_channel, servo_2_channel, actuator_channel}

\* the value whose write detaches a channel (Python None)
None == -999999

max(a, b) == IF a >= b THEN a ELSE b
min(a, b) == IF a <= b THEN a ELSE b

\* ------------------------------------------------------------- the trace
WriteEv(ch, val, ok) == [kind |-> "write", ch |-> ch, val |-> val, ok |-> ok]
SleepEv(t) == [kind |-> "sleep", ch |-> -1, val |-> t, ok |-> TRUE]

VARIABLES
    prog,        \* which program this behaviour runs
    ServoKit,    \* "None" when adafruit_servokit cannot be imported
    cli,         \* HAS_HARDWARE and the locals of execute_command of cli.py
    pc,          \* control position
    op,          \* the public operation in progress (or last finished)
    kit,         \* kit.servo[ch].angle: last value accepted by each channel
    configured,  \* channels whose pulse range and actuation range are set
    self,        \* fields of the PressureProcessor instance
    glob,        \* module globals of test_Waters.py
    loc,         \* locals of the running call
    released,    \* a shutdown() has completed
    log,         \* writes and sleeps of the operation in progress
    status,      \* "none" | "running" | "returned" | "raised"
    exc,         \* where the propagating error was raised
    faults,      \* failed writes so far
    pre          \* snapshot taken when the operation was called

vars == <<prog, ServoKit, cli, pc, op, kit, configured, self, glob, loc,
          released, log, status, exc, faults, pre>>

\* ----------------------------------------------------- PressureProcessor
\* constructor arguments: the default servo angles and speed (lines 49-51,
\* 54) with a short actuator travel
BaseArgs ==
    [servo_up_angle |-> Deg(30), servo_down_angle |-> Deg(150),
     servo_neutral_angle |-> Deg(90), actuator_in_angle |-> Deg(0),
     actuator_out_angle |-> Deg(5), actuator_speed_percent |-> 60]

SpeedInputs == {0, 100, 150}

\* <<up, down, neutral>>: out of [0,180], and not a whole number of degrees
ServoInputs == {<<Deg(30), Deg(150), Deg(200)>>,
                <<Deg(-10), Deg(85) + 1, Deg(90)>>}

\* <<in, out>>: below 0, above 180, and not a whole number of degrees apart
ActuatorInputs == {<<Deg(-10), Deg(3)>>,
                   <<Deg(177), Deg(183)>>,
                   <<Deg(3) + 1, Deg(6)>>}

\* the base arguments, and the base arguments with the speed, the servo
\* angles or the actuator angles replaced
CtorArgs ==
    {BaseArgs}
    \cup {[BaseArgs EXCEPT !.actuator_speed_percent = s] : s \in SpeedInputs}
    \cup {[BaseArgs EXCEPT !.servo_up_angle = t[1], !.servo_down_angle = t[2],
                           !.servo_neutral_angle = t[3]] : t \in ServoInputs}
    \cup {[BaseArgs EXCEPT !.actuator_in_angle = t[1],
                           !.actuator_out_angle = t[2]] : t \in ActuatorInputs}

\* the arguments of PressureProcessor(), lines 49-54
DefaultArgs == [BaseArgs EXCEPT !.actuator_out_angle = Deg(180)]

\* the arguments a program constructs its processor with
Args == IF prog = "cli" THEN {DefaultArgs} ELSE CtorArgs

HoldTimes == {Ms(100), Ms(500)}

NoCli ==
    [HAS_HARDWARE |-> FALSE, command |-> "none", plate_cmd |-> "none",
     pending |-> FALSE, ret |-> 0, rc |-> None]

NoSelf ==
    [servo_up_angle |-> 0, servo_down_angle |-> 0, servo_neutral_angle |-> 0,
     actuator_in_angle |-> 0, actuator_out_angle |-> 0,
     actuator_speed_percent |-> 0, _actuator_current_angle |-> 0]

NoLoc ==
    [pair |-> None, cmd |-> "none", pct |-> None, target_angle |-> 0,
     angle |-> 0,
     step |-> 0, delay |-> 0, servo_1_angle |-> 0, hold_time |-> 0,
     smooth |-> FALSE]

\* the tracked positions and the pair's angles when operation o with locals
\* l is called, and whether o is again the mirrored move that has just
\* returned (press_up and press_down leave the pair at neutral but first
\* move it elsewhere)
Snapshot(o, l) ==
    [tracked |-> self._actuator_current_angle,
     current |-> glob._current_angle, actuator |-> glob._actuator_angle,
     primary |-> kit[servo_1_channel], secondary |-> kit[servo_2_channel],
     speed |-> self.actuator_speed_percent,
     repeat |-> (/\ status = "returned"
                 /\ l.pair # None
                 /\ loc.pair = l.pair
                 /\ o \notin {"press_up", "press_down"})]

\* the speed stored as given
ClampSpeed_Unclamped(p) == p

\* max(1, min(100, actuator_speed_percent))
ClampSpeed(p) == max(1, min(100, p))

\* max(0, min(180, target_angle))
ClampAngle(x) == max(Deg(0), min(Deg(180), x))

\* servo 2 given the angle of servo 1
Mirror_Unmirrored(servo_1_angle) == servo_1_angle

\* servo 2 mirrors servo 1
Mirror(servo_1_angle) == Deg(180) - servo_1_angle

ResetAngle(s) == s.servo_neutral_angle

\* press_up pressing the DOWN position
PressUpAngle_Down(s) == s.servo_down_angle

PressUpAngle(s) == s.servo_up_angle

\* press_down pressing the UP position
PressDownAngle_Up(s) == s.servo_up_angle

PressDownAngle(s) == s.servo_down_angle
PlateInAngle(s) == s.actuator_in_angle

\* plate_out moving to the IN position
PlateOutAngle_In(s) == s.actuator_in_angle

PlateOutAngle(s) == s.actuator_out_angle

\* step = 1 if target_angle > current else -1
StepDir(target_angle, current) == IF target_angle > current THEN Deg(1) ELSE Deg(-1)

\* the map with a slope of 30 / 99 ms per percent
_step_delay_from_speed_Slope30(pct) == (100 - pct) * 30 + Ms(1)

\* ms = ((100 - pct) * (30 - 1) / (100 - 1)) + 1, in 1/99 ms
_step_delay_from_speed(pct) == (100 - pct) * (30 - 1) + Ms(1)

\* a write may fail while the fault budget lasts
Outcomes == IF faults < MaxFaults THEN {TRUE, FALSE} ELSE {TRUE}

\* the outcomes of the write of angle a by a walk from start to target
abs(x) == IF x >= 0 THEN x ELSE -x

WalkOutcomes(start, a, target) ==
    IF abs(a - start) <= Deg(MaxFaultStep) \/ a = target THEN Outcomes ELSE {TRUE}

WM_WalkOutcomes(start, a, target) ==
    IF faults < MaxFaults /\ (abs(a - start) <= Deg(MaxFaultStep) \/ a = target)
    THEN {0, 1, 2}
    ELSE {0}

Write(ch, val, ok) ==
    /\ kit' = IF ok THEN [kit EXCEPT ![ch] = val] ELSE kit
    /\ faults' = IF ok THEN faults ELSE faults + 1

Begin(o, l, first) ==
    /\ op' = o
    /\ loc' = l
    /\ pc' = first
    /\ log' = <<>>
    /\ status' = "running"
    /\ exc' = "none"
    /\ pre' = Snapshot(o, l)

\* where an error that leaves method o is taken: a failed construction
\* leaves no instance; in cli.py the with statement runs __exit__ for an
\* error of its body (line 50), and the except clause takes the others
\* (line 79)
AfterRaise(o) ==
    IF prog = "cli"
    THEN IF o \in {"__init__", "shutdown"} THEN "c_except" ELSE "c_exit"
    ELSE IF o = "__init__" THEN "pp_dead" ELSE "pp_ready"

\* where method o returns to: in cli.py into the body of the with
\* statement, out of it into __exit__, and out of __exit__
AfterReturn(o) ==
    IF prog = "cli"
    THEN CASE o = "__init__" -> "c_body"
           [] o = "shutdown" -> "c_ret"
           [] OTHER -> "c_exit"
    ELSE "pp_ready"

\* the guard that finds the driver library whatever the import gave
ServoKit_is_None_Never == FALSE

\* pp96.py line 76
ServoKit_is_None == ServoKit = "None"

\* an error leaves the call
PP_Raise(at) ==
    /\ status' = "raised"
    /\ exc' = at
    /\ pc' = AfterRaise(op)
    /\ UNCHANGED released

PP_Return ==
    /\ status' = "returned"
    /\ exc' = "none"
    /\ pc' = AfterReturn(op)
    /\ released' = (released \/ op = "shutdown")

PP_Goto(p) ==
    /\ pc' = p
    /\ UNCHANGED <<status, exc, released>>

\* __init__, lines 76-100
__init__(args) ==
    /\ prog \in {"pp96", "cli"}
    /\ pc = "pp_new"
    /\ op' = "__init__"
    /\ log' = <<>>
    /\ pre' = Snapshot("__init__", NoLoc)
    /\ loc' = [NoLoc EXCEPT !.pct = args.actuator_speed_percent]
    /\ IF ServoKit_is_None
       THEN /\ status' = "raised"
            /\ exc' = "pp_new"
            /\ pc' = AfterRaise("__init__")
            /\ UNCHANGED self
       ELSE /\ status' = "running"
            /\ exc' = "none"
            /\ pc' = "pp_config"
            /\ self' = [servo_up_angle |-> args.servo_up_angle,
                        servo_down_angle |-> args.servo_down_angle,
                        servo_neutral_angle |-> args.servo_neutral_angle,
                        actuator_in_angle |-> args.actuator_in_angle,
                        actuator_out_angle |-> args.actuator_out_angle,
                        actuator_speed_percent |->
                            ClampSpeed(args.actuator_speed_percent),
                        _actuator_current_angle |-> args.actuator_out_angle]
    /\ UNCHANGED <<prog, ServoKit, cli, kit, configured, glob, released, faults>>

\* __init__, lines 103-105
configure_channels ==
    /\ pc = "pp_config"
    /\ configured' = Channels
    /\ pc' = "pp_reset1"
    /\ UNCHANGED <<prog, ServoKit, cli, op, kit, self, glob, loc, released, log,
                   status, exc, faults, pre>>

\* _reset_servos, line 113
_reset_servos_1(ok) ==
    /\ pc = "pp_reset1"
    /\ Write(servo_1_channel, ResetAngle(self), ok)
    /\ log' = Append(log, WriteEv(servo_1_channel, ResetAngle(self), ok))
    /\ IF ok THEN PP_Goto("pp_reset2") ELSE PP_Raise("pp_reset1")
    /\ UNCHANGED <<prog, ServoKit, cli, op, configured, self, glob, loc, pre>>

\* _reset_servos, line 115, and the return into the caller
_reset_servos_2(ok) ==
    /\ pc = "pp_reset2"
    /\ Write(servo_2_channel, Mirror(ResetAngle(self)), ok)
    /\ log' = Append(log, WriteEv(servo_2_channel, Mirror(ResetAngle(self)), ok))
    /\ IF ~ok
       THEN PP_Raise("pp_reset2") /\ UNCHANGED loc
       ELSE CASE op = "__init__" ->
                    \* self.plate_out(smooth=False), line 109
                    /\ PP_Goto("pp_jump")
                    /\ loc' = [loc EXCEPT !.target_angle = PlateOutAngle(self),
                                          !.smooth = FALSE]
              [] op = "shutdown" ->
                    \* self.plate_out(smooth=True), line 228
                    /\ PP_Goto("pp_smooth")
                    /\ loc' = [loc EXCEPT !.target_angle = PlateOutAngle(self),
                                          !.smooth = TRUE]
              [] OTHER -> PP_Return /\ UNCHANGED loc
    /\ UNCHANGED <<prog, ServoKit, cli, op, configured, self, glob, pre>>

\* press_up, line 144
press_up(hold_time) ==
    /\ pc = "pp_ready"
    /\ Begin("press_up",
             [NoLoc EXCEPT !.pair = ResetAngle(self),
                           !.servo_1_angle = PressUpAngle(self),
                           !.hold_time = hold_time],
             "pp_setmir1")
    /\ UNCHANGED <<prog, ServoKit, cli, kit, configured, self, glob, released, faults>>

\* press_down, line 155
press_down(hold_time) ==
    /\ pc = "pp_ready"
    /\ Begin("press_down",
             [NoLoc EXCEPT !.pair = ResetAngle(self),
                           !.servo_1_angle = PressDownAngle(self),
                           !.hold_time = hold_time],
             "pp_setmir1")
    /\ UNCHANGED <<prog, ServoKit, cli, kit, configured, self, glob, released, faults>>

\* press_neutral, line 162
press_neutral ==
    /\ pc = "pp_ready"
    /\ Begin("press_neutral", [NoLoc EXCEPT !.pair = ResetAngle(self)],
             "pp_reset1")
    /\ UNCHANGED <<prog, ServoKit, cli, kit, configured, self, glob, released, faults>>

\* _set_mirrored_position, line 129
_set_mirrored_position_1(ok) ==
    /\ pc = "pp_setmir1"
    /\ Write(servo_1_channel, loc.servo_1_angle, ok)
    /\ log' = Append(log, WriteEv(servo_1_channel, loc.servo_1_angle, ok))
    /\ IF ok THEN PP_Goto("pp_setmir2") ELSE PP_Raise("pp_setmir1")
    /\ UNCHANGED <<prog, ServoKit, cli, op, configured, self, glob, loc, pre>>

\* _set_mirrored_position, lines 131-132
_set_mirrored_position_2(ok) ==
    /\ pc = "pp_setmir2"
    /\ Write(servo_2_channel, Mirror(loc.servo_1_angle), ok)
    /\ log' = Append(log, WriteEv(servo_2_channel, Mirror(loc.servo_1_angle), ok))
    /\ IF ok THEN PP_Goto("pp_hold") ELSE PP_Raise("pp_setmir2")
    /\ UNCHANGED <<prog, ServoKit, cli, op, configured, self, glob, loc, pre>>

\* _set_mirrored_position, line 134: time.sleep(hold_time), then
\* self._reset_servos() of press_up / press_down
HoldEvents(hold_time) == <<SleepEv(hold_time)>>

\* the hold that also takes the plate for retracted
_set_mirrored_position_hold_Retract ==
    /\ pc = "pp_hold"
    /\ log' = log \o HoldEvents(loc.hold_time)
    /\ pc' = "pp_reset1"
    /\ self' = [self EXCEPT !._actuator_current_angle = PlateInAngle(self)]
    /\ UNCHANGED <<prog, ServoKit, cli, op, kit, configured, glob, loc,
                   released, status, exc, faults, pre>>

_set_mirrored_position_hold ==
    /\ pc = "pp_hold"
    /\ log' = log \o HoldEvents(loc.hold_time)
    /\ pc' = "pp_reset1"
    /\ UNCHANGED <<prog, ServoKit, cli, op, kit, configured, self, glob, loc,
                   released, status, exc, faults, pre>>

\* plate_in, lines 203-204 (the call and the choice of branch)
plate_in(smooth) ==
    /\ pc = "pp_ready"
    /\ Begin("plate_in",
             [NoLoc EXCEPT !.target_angle = PlateInAngle(self),
                           !.smooth = smooth],
             IF smooth THEN "pp_smooth" ELSE "pp_jump")
    /\ UNCHANGED <<prog, ServoKit, cli, kit, configured, self, glob, released, faults>>

\* plate_out, lines 217-218
plate_out(smooth) ==
    /\ pc = "pp_ready"
    /\ Begin("plate_out",
             [NoLoc EXCEPT !.target_angle = PlateOutAngle(self),
                           !.smooth = smooth],
             IF smooth THEN "pp_smooth" ELSE "pp_jump")
    /\ UNCHANGED <<prog, ServoKit, cli, kit, configured, self, glob, released, faults>>

\* plate_in / plate_out with smooth false, lines 206-207 and 220-221
plate_jump(ok) ==
    /\ pc = "pp_jump"
    /\ Write(actuator_channel, loc.target_angle, ok)
    /\ log' = Append(log, WriteEv(actuator_channel, loc.target_angle, ok))
    /\ IF ok
       THEN /\ self' = [self EXCEPT !._actuator_current_angle = loc.target_angle]
            /\ PP_Return
       ELSE /\ UNCHANGED self
            /\ PP_Raise("pp_jump")
    /\ UNCHANGED <<prog, ServoKit, cli, op, configured, glob, loc, pre>>

\* where control goes when plate_in / plate_out returns
AfterPlate ==
    IF op = "shutdown" THEN PP_Goto("pp_sleep") ELSE PP_Return

\* _move_actuator_smooth, lines 178-187
_move_actuator_smooth_begin ==
    /\ pc = "pp_smooth"
    /\ LET target_angle == ClampAngle(loc.target_angle)
           current == self._actuator_current_angle
       IN  IF current = target_angle
           THEN /\ AfterPlate
                /\ loc' = [loc EXCEPT !.target_angle = target_angle]
           ELSE /\ PP_Goto("pp_loop")
                /\ loc' = [loc EXCEPT
                             !.target_angle = target_angle,
                             !.step = StepDir(target_angle, current),
                             !.delay = _step_delay_from_speed(
                                           self.actuator_speed_percent),
                             !.angle = current]
    /\ UNCHANGED <<prog, ServoKit, cli, op, kit, configured, self, glob, log,
                   faults, pre>>

\* the walk has stepped over its target by MaxOvershoot degrees
Overshot == (loc.angle - loc.target_angle) * loc.step >= Deg(MaxOvershoot) * Deg(1)

\* _move_actuator_smooth, lines 188-191: one turn of the loop
_move_actuator_smooth_step(ok) ==
    /\ pc = "pp_loop"
    /\ loc.angle # loc.target_angle
    /\ ~Overshot
    /\ LET angle == loc.angle + loc.step
       IN  /\ loc' = [loc EXCEPT !.angle = angle]
           /\ Write(actuator_channel, angle, ok)
           /\ IF ok
              THEN /\ log' = log \o <<WriteEv(actuator_channel, angle, TRUE),
                                      SleepEv(loc.delay)>>
                   /\ PP_Goto("pp_loop")
              ELSE /\ log' = Append(log, WriteEv(actuator_channel, angle, FALSE))
                   /\ PP_Raise("pp_loop")
    /\ UNCHANGED <<prog, ServoKit, cli, op, configured, self, glob, pre>>

\* _move_actuator_smooth, line 193, and the return
_move_actuator_smooth_end ==
    /\ pc = "pp_loop"
    /\ loc.angle = loc.target_angle
    /\ self' = [self EXCEPT !._actuator_current_angle = loc.target_angle]
    /\ AfterPlate
    /\ UNCHANGED <<prog, ServoKit, cli, op, kit, configured, glob, loc, log,
                   faults, pre>>

\* shutdown, line 227 (the call)
shutdown ==
    /\ pc = "pp_ready"
    /\ Begin("shutdown", NoLoc, "pp_reset1")
    /\ UNCHANGED <<prog, ServoKit, cli, kit, configured, self, glob, released, faults>>

\* shutdown, line 229
shutdown_sleep ==
    /\ pc = "pp_sleep"
    /\ log' = Append(log, SleepEv(Ms(200)))
    /\ pc' = "pp_detach1"
    /\ UNCHANGED <<prog, ServoKit, cli, op, kit, configured, self, glob, loc,
                   released, status, exc, faults, pre>>

\* every detaching write going to the primary channel
DetachChannel_First(p) == servo_1_channel

\* shutdown, lines 231-236: the three detaching writes share one try block,
\* whose handler swallows the error and returns
DetachChannel(p) ==
    CASE p = "pp_detach1" -> servo_1_channel
      [] p = "pp_detach2" -> servo_2_channel
      [] OTHER -> actuator_channel

DetachNext(p) ==
    CASE p = "pp_detach1" -> "pp_detach2"
      [] p = "pp_detach2" -> "pp_detach3"
      [] OTHER -> "pp_ready"

shutdown_detach(ok) ==
    /\ pc \in {"pp_detach1", "pp_detach2", "pp_detach3"}
    /\ Write(DetachChannel(pc), None, ok)
    /\ log' = Append(log, WriteEv(DetachChannel(pc), None, ok))
    /\ IF ok /\ DetachNext(pc) # "pp_ready"
       THEN PP_Goto(DetachNext(pc))
       ELSE PP_Return
    /\ UNCHANGED <<prog, ServoKit, cli, op, configured, self, glob, loc, pre>>

PP_Next ==
    \/ \E args \in Args : __init__(args)
    \/ configure_channels
    \/ \E ok \in Outcomes : _reset_servos_1(ok)
    \/ \E ok \in Outcomes : _reset_servos_2(ok)
    \/ \E h \in HoldTimes : press_up(h)
    \/ \E h \in HoldTimes : press_down(h)
    \/ press_neutral
    \/ \E ok \in Outcomes : _set_mirrored_position_1(ok)
    \/ \E ok \in Outcomes : _set_mirrored_position_2(ok)
    \/ _set_mirrored_position_hold
    \/ \E smooth \in BOOLEAN : plate_in(smooth)
    \/ \E smooth \in BOOLEAN : plate_out(smooth)
    \/ \E ok \in Outcomes : plate_jump(ok)
    \/ _move_actuator_smooth_begin
    \/ \E ok \in WalkOutcomes(self._actuator_current_angle,
                                loc.angle + loc.step, loc.target_angle) :
          _move_actuator_smooth_step(ok)
    \/ _move_actuator_smooth_end
    \/ shutdown
    \/ shutdown_sleep
    \/ \E ok \in Outcomes : shutdown_detach(ok)

\* --------------------------------------------------------- test_Waters.py
OPEN_ANGLE == 0
GRASP_ANGLE == 120
CLOSED_ANGLE == 180
READY_ANGLE == 90
UP_ANGLE == 30
DOWN_ANGLE == 150
SPEED_PERCENT == 60
SERVO_CH_1 == 0
SERVO_CH_2 == 1
SERVO_CH_ACT == 2
ACT_RETRACT_ANGLE == 0
ACT_EXTEND_ANGLE == 180
ACT_READY_ANGLE == 90

\* a stdin line, already stripped and lowered: its first word and, for
\* set and speed, whether int() accepts the second word and its value
SetInputs == {-10, 500}
Lines ==
    {[word |-> w, isInt |-> FALSE, arg |-> 0] :
        w \in {"neutral", "up", "down", "open", "grip", "close", "help",
               "quit", "push", "pull", "bogus", "set", "speed"}}
    \cup {[word |-> "set", isInt |-> TRUE, arg |-> n] : n \in SetInputs}
    \cup {[word |-> "speed", isInt |-> TRUE, arg |-> n] : n \in SpeedInputs}

\* int(target): truncation toward zero to a whole number of degrees
int(x) == IF x >= 0 THEN (x \div Unit) * Unit ELSE -(((-x) \div Unit) * Unit)

\* pct = max(1, min(100, int(pct))); ms = ((100 - pct) * 29 / 99) + 1
step_delay_from_speed(pct) == (100 - max(1, min(100, pct))) * (30 - 1) + Ms(1)

\* SPEED_PERCENT = max(1, min(100, pct)), line 185
W_ClampSpeed(pct) == max(1, min(100, pct))

\* step = 1 if target >= _current_angle else -1
W_StepDir(target, current) == IF target >= current THEN Deg(1) ELSE Deg(-1)

\* the tracked angle left as it was
Tracked_Stale(current, target) == current

\* _current_angle = target (line 92), _actuator_angle = target (line 130)
Tracked(current, target) == target

\* _write_mirrored: the clamp, then the primary and the secondary write;
\* f is the write that fails (0: none)
WM_Outcomes == IF faults < MaxFaults THEN {0, 1, 2} ELSE {0}

\* the secondary written with the angle of the primary
WM_Secondary_Same(angle) == angle

WM_Secondary(angle) == Deg(180) - angle

WM_Events(angle, f) ==
    LET a == ClampAngle(angle)
    IN  IF f = 1
        THEN <<WriteEv(SERVO_CH_1, a, FALSE)>>
        ELSE <<WriteEv(SERVO_CH_1, a, TRUE),
               WriteEv(SERVO_CH_2, WM_Secondary(a), f # 2)>>

_write_mirrored(angle, f) ==
    LET a == ClampAngle(angle)
    IN  /\ kit' = CASE f = 0 -> [kit EXCEPT ![SERVO_CH_1] = a,
                                            ![SERVO_CH_2] = WM_Secondary(a)]
                    [] f = 1 -> kit
                    [] OTHER -> [kit EXCEPT ![SERVO_CH_1] = a]
        /\ faults' = IF f = 0 THEN faults ELSE faults + 1

\* _write_actuator: the clamp, then the write
_write_actuator(angle, ok) == Write(SERVO_CH_ACT, ClampAngle(angle), ok)

WA_Event(angle, ok) == WriteEv(SERVO_CH_ACT, ClampAngle(angle), ok)

\* an operation that returns at once
Done(o, l) ==
    /\ op' = o
    /\ loc' = l
    /\ log' = <<>>
    /\ status' = "returned"
    /\ exc' = "none"
    /\ pre' = Snapshot(o, l)

\* the error leaves handle_command and main's loop, and the finally block
\* runs with it pending; an error inside the finally block is swallowed
W_Raise(at) ==
    IF op = "finally"
    THEN /\ pc' = "w_detach1"
         /\ UNCHANGED <<status, exc>>
    ELSE /\ pc' = "w_finally"
         /\ status' = "raised"
         /\ exc' = at

\* module level, lines 25-57 and 96-109
import ==
    /\ prog = "test_Waters"
    /\ pc = "w_import"
    /\ op' = "import"
    /\ loc' = NoLoc
    /\ log' = <<>>
    /\ pre' = Snapshot("import", NoLoc)
    /\ IF ServoKit = "None"
       THEN /\ status' = "raised"
            /\ exc' = "w_import"
            /\ pc' = "w_exit"
            /\ UNCHANGED <<configured, glob>>
       ELSE /\ status' = "running"
            /\ exc' = "none"
            /\ pc' = "w_home"
            /\ configured' = {SERVO_CH_1, SERVO_CH_2, SERVO_CH_ACT}
            /\ glob' = [_current_angle |-> Deg(READY_ANGLE),
                        _actuator_angle |-> Deg(ACT_READY_ANGLE),
                        SPEED_PERCENT |-> SPEED_PERCENT]
    /\ UNCHANGED <<prog, ServoKit, cli, kit, self, released, faults>>

\* module level, lines 134-138: home the actuator, errors swallowed
home_actuator(ok) ==
    /\ pc = "w_home"
    /\ _write_actuator(Deg(ACT_READY_ANGLE), ok)
    /\ log' = Append(log, WA_Event(Deg(ACT_READY_ANGLE), ok))
    /\ glob' = IF ok THEN [glob EXCEPT !._actuator_angle = Deg(ACT_READY_ANGLE)]
                     ELSE glob
    /\ pc' = "w_main"
    /\ status' = "returned"
    /\ UNCHANGED <<prog, ServoKit, cli, op, configured, self, loc, released, exc, pre>>

\* main, lines 212-214; an error here is outside the try statement
main(f) ==
    /\ pc = "w_main"
    /\ op' = "main"
    /\ loc' = [NoLoc EXCEPT !.pair = Deg(READY_ANGLE)]
    /\ pre' = Snapshot("main", NoLoc)
    /\ _write_mirrored(Deg(READY_ANGLE), f)
    /\ IF f = 0
       THEN /\ glob' = [glob EXCEPT !._current_angle = Deg(READY_ANGLE)]
            /\ log' = WM_Events(Deg(READY_ANGLE), f) \o <<SleepEv(Ms(200))>>
            /\ pc' = "w_idle"
            /\ status' = "returned"
            /\ exc' = "none"
       ELSE /\ UNCHANGED glob
            /\ log' = WM_Events(Deg(READY_ANGLE), f)
            /\ pc' = "w_exit"
            /\ status' = "raised"
            /\ exc' = "w_main"
    /\ UNCHANGED <<prog, ServoKit, cli, configured, self, released>>

\* move_to_angle_mirrored, lines 78-87 (_current_angle is never None: it is
\* READY_ANGLE from line 57 on and only ever assigned a clamped int)
move_to_angle_mirrored(o, cmd, target) ==
    /\ Begin(o,
             [NoLoc EXCEPT
                !.pair = ClampAngle(int(target)), !.cmd = cmd,
                !.target_angle = ClampAngle(int(target)),
                !.step = W_StepDir(ClampAngle(int(target)), glob._current_angle),
                !.delay = step_delay_from_speed(glob.SPEED_PERCENT),
                !.angle = glob._current_angle],
             "w_loop")
    /\ UNCHANGED <<prog, ServoKit, cli, kit, configured, self, glob, released, faults>>

\* move_actuator_to, lines 118-125
move_actuator_to(o, cmd, target) ==
    /\ Begin(o,
             [NoLoc EXCEPT
                !.cmd = cmd,
                !.target_angle = ClampAngle(int(target)),
                !.step = W_StepDir(ClampAngle(int(target)), glob._actuator_angle),
                !.delay = step_delay_from_speed(glob.SPEED_PERCENT),
                !.angle = glob._actuator_angle],
             "w_aloop")
    /\ UNCHANGED <<prog, ServoKit, cli, kit, configured, self, glob, released, faults>>

NamedAngle(word) ==
    CASE word \in {"neutral", "ready", "center"} -> READY_ANGLE
      [] word = "up" -> UP_ANGLE
      [] word = "down" -> DOWN_ANGLE
      [] word = "open" -> OPEN_ANGLE
      [] word = "grip" -> GRASP_ANGLE
      [] word \in {"close", "closed"} -> CLOSED_ANGLE
      [] word = "push" -> ACT_EXTEND_ANGLE
      [] OTHER -> ACT_RETRACT_ANGLE

\* handle_command, lines 141-207
handle_command(line) ==
    /\ pc = "w_idle"
    /\ \/ /\ line.word \in {"neutral", "ready", "center", "up", "down",
                            "open", "grip", "close", "closed"}
          /\ move_to_angle_mirrored("handle_command", line.word,
                                    Deg(NamedAngle(line.word)))
       \/ /\ line.word = "set"
          /\ line.isInt
          /\ move_to_angle_mirrored("handle_command", line.word,
                                    ClampAngle(Deg(line.arg)))
       \/ /\ line.word = "speed"
          /\ line.isInt
          /\ Done("handle_command",
                  [NoLoc EXCEPT !.cmd = line.word, !.pct = line.arg])
          /\ glob' = [glob EXCEPT !.SPEED_PERCENT = W_ClampSpeed(line.arg)]
          /\ UNCHANGED <<prog, ServoKit, cli, pc, kit, configured, self, released,
                         faults>>
       \/ /\ \/ line.word \in {"set", "speed"} /\ ~line.isInt
             \/ line.word \in {"help", "?"}
             \/ line.word \notin {"neutral", "ready", "center", "up", "down",
                                  "open", "grip", "close", "closed", "set",
                                  "speed", "help", "?", "quit", "exit",
                                  "push", "pull"}
          /\ Done("handle_command", [NoLoc EXCEPT !.cmd = line.word])
          /\ UNCHANGED <<prog, ServoKit, cli, pc, kit, configured, self, glob,
                         released, faults>>
       \/ /\ line.word \in {"quit", "exit"}
          /\ Done("handle_command", [NoLoc EXCEPT !.cmd = line.word])
          /\ pc' = "w_finally"
          /\ UNCHANGED <<prog, ServoKit, cli, kit, configured, self, glob,
                         released, faults>>
       \/ /\ line.word \in {"push", "pull"}
          /\ move_actuator_to("handle_command", line.word,
                              Deg(NamedAngle(line.word)))

\* main, line 223: sys.stdin is exhausted
stdin_eof ==
    /\ pc = "w_idle"
    /\ pc' = "w_finally"
    /\ UNCHANGED <<prog, ServoKit, cli, op, kit, configured, self, glob, loc,
                   released, log, status, exc, faults, pre>>

\* move_to_angle_mirrored, lines 88-91: one turn of the loop
mirrored_step(f) ==
    /\ pc = "w_loop"
    /\ loc.angle # loc.target_angle
    /\ LET a == loc.angle + loc.step
       IN  /\ loc' = [loc EXCEPT !.angle = a]
           /\ _write_mirrored(a, f)
           /\ IF f = 0
              THEN /\ log' = log \o WM_Events(a, f) \o <<SleepEv(loc.delay)>>
                   /\ UNCHANGED <<pc, status, exc>>
              ELSE /\ log' = log \o WM_Events(a, f)
                   /\ W_Raise("w_loop")
    /\ UNCHANGED <<prog, ServoKit, cli, op, configured, self, glob, released, pre>>

\* move_to_angle_mirrored, lines 92-93, and the return: into handle_command
\* and main's loop, or into the finally block (line 231)
mirrored_final(f) ==
    /\ pc = "w_loop"
    /\ loc.angle = loc.target_angle
    /\ glob' = [glob EXCEPT
                  !._current_angle = Tracked(glob._current_angle, loc.target_angle)]
    /\ _write_mirrored(loc.target_angle, f)
    /\ IF f # 0
       THEN /\ log' = log \o WM_Events(loc.target_angle, f)
            /\ W_Raise("w_final")
       ELSE IF op = "finally"
            THEN /\ log' = log \o WM_Events(loc.target_angle, f)
                             \o <<SleepEv(Ms(200))>>
                 /\ pc' = "w_detach1"
                 /\ UNCHANGED <<status, exc>>
            ELSE /\ log' = log \o WM_Events(loc.target_angle, f)
                 /\ pc' = "w_idle"
                 /\ status' = "returned"
                 /\ UNCHANGED exc
    /\ UNCHANGED <<prog, ServoKit, cli, op, configured, self, loc, released, pre>>

\* move_actuator_to, lines 126-129: one turn of the loop
actuator_step(ok) ==
    /\ pc = "w_aloop"
    /\ loc.angle # loc.target_angle
    /\ LET a == loc.angle + loc.step
       IN  /\ loc' = [loc EXCEPT !.angle = a]
           /\ _write_actuator(a, ok)
           /\ IF ok
              THEN /\ log' = log \o <<WA_Event(a, ok), SleepEv(loc.delay)>>
                   /\ UNCHANGED <<pc, status, exc>>
              ELSE /\ log' = Append(log, WA_Event(a, ok))
                   /\ W_Raise("w_aloop")
    /\ UNCHANGED <<prog, ServoKit, cli, op, configured, self, glob, released, pre>>

\* move_actuator_to, lines 130-131, and the return
actuator_final(ok) ==
    /\ pc = "w_aloop"
    /\ loc.angle = loc.target_angle
    /\ glob' = [glob EXCEPT
                  !._actuator_angle = Tracked(glob._actuator_angle, loc.target_angle)]
    /\ _write_actuator(loc.target_angle, ok)
    /\ log' = Append(log, WA_Event(loc.target_angle, ok))
    /\ IF ok
       THEN /\ pc' = "w_idle"
            /\ status' = "returned"
            /\ UNCHANGED exc
       ELSE W_Raise("w_afinal")
    /\ UNCHANGED <<prog, ServoKit, cli, op, configured, self, loc, released, pre>>

\* main, lines 227-230: the finally block parks the pair at neutral
finally ==
    /\ pc = "w_finally"
    /\ op' = "finally"
    /\ loc' = [NoLoc EXCEPT
                 !.pair = Deg(READY_ANGLE), !.cmd = "finally",
                 !.target_angle = ClampAngle(int(Deg(READY_ANGLE))),
                 !.step = W_StepDir(ClampAngle(int(Deg(READY_ANGLE))),
                                    glob._current_angle),
                 !.delay = step_delay_from_speed(glob.SPEED_PERCENT),
                 !.angle = glob._current_angle]
    /\ pc' = "w_loop"
    /\ log' = <<>>
    /\ pre' = Snapshot("finally", [NoLoc EXCEPT !.pair = Deg(READY_ANGLE)])
    /\ UNCHANGED <<prog, ServoKit, cli, kit, configured, self, glob, released,
                   status, exc, faults>>

\* main, lines 235-244: release the pair in one try statement, the
\* actuator in another; the process then ends, with the pending error if
\* there is one
W_DetachChannel(p) ==
    CASE p = "w_detach1" -> SERVO_CH_1
      [] p = "w_detach2" -> SERVO_CH_2
      [] OTHER -> SERVO_CH_ACT

W_DetachNext(p, ok) ==
    CASE p = "w_detach1" /\ ok -> "w_detach2"
      [] p = "w_detach3" -> "w_exit"
      [] OTHER -> "w_detach3"

finally_detach(ok) ==
    /\ pc \in {"w_detach1", "w_detach2", "w_detach3"}
    /\ Write(W_DetachChannel(pc), None, ok)
    /\ log' = Append(log, WriteEv(W_DetachChannel(pc), None, ok))
    /\ pc' = W_DetachNext(pc, ok)
    /\ UNCHANGED <<prog, ServoKit, cli, op, configured, self, glob, loc, released,
                   status, exc, pre>>

W_Next ==
    \/ import
    \/ \E ok \in Outcomes : home_actuator(ok)
    \/ \E f \in WM_Outcomes : main(f)
    \/ \E line \in Lines : handle_command(line)
    \/ stdin_eof
    \/ \E f \in WM_WalkOutcomes(glob._current_angle, loc.angle + loc.step,
                                 loc.target_angle) :
          mirrored_step(f)
    \/ \E f \in WM_Outcomes : mirrored_final(f)
    \/ \E ok \in WalkOutcomes(glob._actuator_angle, loc.angle + loc.step,
                                loc.target_angle) :
          actuator_step(ok)
    \/ \E ok \in Outcomes : actuator_final(ok)
    \/ finally
    \/ \E ok \in Outcomes : finally_detach(ok)

\* ------------------------------------------------------------------ cli.py
\* the argument of execute_command: the namespaces build_parser accepts,
\* and an unknown command and an unknown plate command
Namespaces ==
    {[command |-> c, plate_cmd |-> "none"] :
        c \in {"up", "down", "neutral", "bogus"}}
    \cup {[command |-> "plate", plate_cmd |-> p] : p \in {"in", "out", "bogus"}}

\* module level, lines 4-8: HAS_HARDWARE is False when importing pp96
\* raises RuntimeError; pp96.py turns the ImportError of a missing
\* adafruit_servokit into ServoKit = None (its lines 14-17) and raises
\* nothing
cli_import ==
    /\ prog = "cli"
    /\ pc = "c_import"
    /\ cli' = [cli EXCEPT !.HAS_HARDWARE = (ServoKit # "RuntimeError")]
    /\ pc' = "c_main"
    /\ UNCHANGED <<prog, ServoKit, op, kit, configured, self, glob, loc,
                   released, log, status, exc, faults, pre>>

\* execute_command, lines 35-50: the dry run, or the call of
\* PressureProcessor()
execute_command(args) ==
    /\ pc = "c_main"
    /\ op' = "execute_command"
    /\ loc' = NoLoc
    /\ log' = <<>>
    /\ exc' = "none"
    /\ pre' = Snapshot("execute_command", NoLoc)
    /\ IF ~cli.HAS_HARDWARE
       THEN /\ cli' = [cli EXCEPT
                         !.command = args.command,
                         !.plate_cmd = args.plate_cmd,
                         !.rc = IF args.command \in {"up", "down", "neutral",
                                                     "plate"}
                                THEN 0 ELSE 1]
            /\ pc' = "c_done"
            /\ status' = "returned"
       ELSE /\ cli' = [cli EXCEPT !.command = args.command,
                                  !.plate_cmd = args.plate_cmd]
            /\ pc' = "pp_new"
            /\ status' = "running"
    /\ UNCHANGED <<prog, ServoKit, kit, configured, self, glob, released,
                   faults>>

\* execute_command, lines 51-77: the body of the with statement
with_body ==
    /\ pc = "c_body"
    /\ CASE cli.command = "up" ->
              /\ Begin("press_up",
                       [NoLoc EXCEPT !.pair = ResetAngle(self),
                                     !.servo_1_angle = PressUpAngle(self),
                                     !.hold_time = Ms(500)],
                       "pp_setmir1")
              /\ UNCHANGED cli
         [] cli.command = "down" ->
              /\ Begin("press_down",
                       [NoLoc EXCEPT !.pair = ResetAngle(self),
                                     !.servo_1_angle = PressDownAngle(self),
                                     !.hold_time = Ms(500)],
                       "pp_setmir1")
              /\ UNCHANGED cli
         [] cli.command = "neutral" ->
              /\ Begin("press_neutral", [NoLoc EXCEPT !.pair = ResetAngle(self)],
                       "pp_reset1")
              /\ UNCHANGED cli
         [] cli.command = "plate" /\ cli.plate_cmd = "in" ->
              /\ Begin("plate_in",
                       [NoLoc EXCEPT !.target_angle = PlateInAngle(self),
                                     !.smooth = TRUE],
                       "pp_smooth")
              /\ UNCHANGED cli
         [] cli.command = "plate" /\ cli.plate_cmd = "out" ->
              /\ Begin("plate_out",
                       [NoLoc EXCEPT !.target_angle = PlateOutAngle(self),
                                     !.smooth = TRUE],
                       "pp_smooth")
              /\ UNCHANGED cli
         [] OTHER ->
              \* return 1, lines 74 and 77
              /\ cli' = [cli EXCEPT !.ret = 1]
              /\ pc' = "c_exit"
              /\ UNCHANGED <<op, loc, log, status, exc, pre>>
    /\ UNCHANGED <<prog, ServoKit, kit, configured, self, glob, released,
                   faults>>

\* pp96.py lines 242-245: the with statement is left, with or without an
\* error pending
__exit__ ==
    /\ pc = "c_exit"
    /\ cli' = [cli EXCEPT !.pending = (status = "raised")]
    /\ Begin("shutdown", NoLoc, "pp_reset1")
    /\ UNCHANGED <<prog, ServoKit, kit, configured, self, glob, released,
                   faults>>

\* execute_command, lines 74-81: __exit__ returns False, so a pending
\* error goes on to the except clause, as does an error of the
\* construction or of __exit__
execute_command_return ==
    /\ pc \in {"c_ret", "c_except"}
    /\ cli' = [cli EXCEPT
                 !.rc = IF pc = "c_except" \/ cli.pending THEN 1 ELSE cli.ret]
    /\ pc' = "c_done"
    /\ UNCHANGED <<prog, ServoKit, op, kit, configured, self, glob, loc,
                   released, log, status, exc, faults, pre>>

C_Next ==
    \/ cli_import
    \/ \E args \in Namespaces : execute_command(args)
    \/ with_body
    \/ __exit__
    \/ execute_command_return

\* ------------------------------------------------------ the specification
\* the outcomes of importing adafruit_servokit: it is there, it is
\* missing (ImportError), or it raises RuntimeError, which leaves pp96.py
\* and test_Waters.py unimported and cli.py without hardware
ImportOutcomes ==
    IF prog = "cli" THEN {"None", "ServoKit", "RuntimeError"}
                    ELSE {"None", "ServoKit"}

Init ==
    /\ prog \in {"pp96", "test_Waters", "cli"}
    /\ ServoKit \in ImportOutcomes
    /\ cli = NoCli
    /\ pc = CASE prog = "pp96" -> "pp_new"
               [] prog = "test_Waters" -> "w_import"
               [] OTHER -> "c_import"
    /\ op = "none"
    /\ kit = [ch \in Channels |-> None]
    /\ configured = {}
    /\ self = NoSelf
    /\ glob = [_current_angle |-> Deg(READY_ANGLE),
               _actuator_angle |-> Deg(ACT_READY_ANGLE),
               SPEED_PERCENT |-> SPEED_PERCENT]
    /\ loc = NoLoc
    /\ released = FALSE
    /\ log = <<>>
    /\ status = "none"
    /\ exc = "none"
    /\ faults = 0
    /\ pre = [tracked |-> 0, current |-> Deg(READY_ANGLE),
              actuator |-> Deg(ACT_READY_ANGLE), primary |-> None,
              secondary |-> None, speed |-> 0, repeat |-> FALSE]

Next == PP_Next \/ W_Next \/ C_Next

Spec == Init /\ [][Next]_vars

\* one turn, or the exit, of the loop of a stepped move: lines 188-193 of
\* pp96.py, 88-93 and 126-131 of test_Waters.py
LoopTurn ==
    \/ \E ok \in WalkOutcomes(self._actuator_current_angle,
                                loc.angle + loc.step, loc.target_angle) :
          _move_actuator_smooth_step(ok)
    \/ _move_actuator_smooth_end
    \/ \E f \in WM_WalkOutcomes(glob._current_angle, loc.angle + loc.step,
                                 loc.target_angle) :
          mirrored_step(f)
    \/ \E f \in WM_Outcomes : mirrored_final(f)
    \/ \E ok \in WalkOutcomes(glob._actuator_angle, loc.angle + loc.step,
                                loc.target_angle) :
          actuator_step(ok)
    \/ \E ok \in Outcomes : actuator_final(ok)

\* the programs are single-threaded and time.sleep returns: a loop that can
\* take a turn takes it.  A walk the model has stopped following (Overshot)
\* is a loop that goes on taking turns for ever.
LiveSpec == Spec /\ WF_vars(LoopTurn)

\* ------------------------------------------ the speed-to-delay map alone
\* A constructed PressureProcessor, or test_Waters.py at its prompt, and
\* nothing but calls of the delay function.  loc holds the percent and the
\* result of the last call, log the call before it.
DelayInputs == 0 .. 101

DelayEv(pct, delay) == [kind |-> "delay", pct |-> pct, val |-> delay]

\* the last call, if there was one
LastDelay == IF loc.pct = None THEN <<>> ELSE <<DelayEv(loc.pct, loc.delay)>>

DelayInit ==
    /\ prog \in {"pp96", "test_Waters"}
    /\ ServoKit = "ServoKit"
    /\ cli = NoCli
    /\ pc = IF prog = "pp96" THEN "pp_ready" ELSE "w_idle"
    /\ op = "none"
    /\ configured = Channels
    /\ \E in \in {TRUE, FALSE} :
          /\ self = IF prog = "pp96"
                    THEN [servo_up_angle |-> BaseArgs.servo_up_angle,
                          servo_down_angle |-> BaseArgs.servo_down_angle,
                          servo_neutral_angle |-> BaseArgs.servo_neutral_angle,
                          actuator_in_angle |-> BaseArgs.actuator_in_angle,
                          actuator_out_angle |-> BaseArgs.actuator_out_angle,
                          actuator_speed_percent |->
                              ClampSpeed(BaseArgs.actuator_speed_percent),
                          _actuator_current_angle |->
                              IF in THEN BaseArgs.actuator_in_angle
                                    ELSE BaseArgs.actuator_out_angle]
                    ELSE NoSelf
          /\ glob = [_current_angle |->
                         IF in THEN Deg(UP_ANGLE) ELSE Deg(READY_ANGLE),
                     _actuator_angle |-> Deg(ACT_READY_ANGLE),
                     SPEED_PERCENT |-> SPEED_PERCENT]
          /\ kit = IF prog = "pp96"
                   THEN [ch \in Channels |->
                            IF ch = actuator_channel
                            THEN self._actuator_current_angle
                            ELSE IF ch = servo_1_channel
                                 THEN ResetAngle(self)
                                 ELSE Mirror(ResetAngle(self))]
                   ELSE [ch \in Channels |->
                            IF ch = SERVO_CH_ACT
                            THEN glob._actuator_angle
                            ELSE IF ch = SERVO_CH_1
                                 THEN glob._current_angle
                                 ELSE WM_Secondary(glob._current_angle)]
    /\ loc = NoLoc
    /\ released = FALSE
    /\ log = <<>>
    /\ status = "none"
    /\ exc = "none"
    /\ faults = 0
    /\ pre = Snapshot("none", NoLoc)

\* pp96.py line 99: a processor constructed with speed p
set_speed(p) ==
    /\ prog = "pp96"
    /\ status # "running"
    /\ self' = [self EXCEPT !.actuator_speed_percent = ClampSpeed(p)]
    /\ status' = "running"
    /\ log' = IF loc.pct = None THEN log ELSE LastDelay
    /\ loc' = NoLoc
    /\ UNCHANGED <<prog, ServoKit, cli, pc, op, kit, configured, glob, released,
                   exc, faults, pre>>

\* pp96.py lines 164-171: self._step_delay_from_speed()
call__step_delay_from_speed ==
    /\ prog = "pp96"
    /\ status = "running"
    /\ op' = "_step_delay_from_speed"
    /\ pre' = Snapshot("_step_delay_from_speed", NoLoc)
    /\ loc' = [NoLoc EXCEPT
                 !.pct = self.actuator_speed_percent,
                 !.delay = _step_delay_from_speed(self.actuator_speed_percent)]
    /\ status' = "returned"
    /\ UNCHANGED <<prog, ServoKit, cli, pc, kit, configured, self, glob, released,
                   log, exc, faults>>

\* test_Waters.py lines 59-67: step_delay_from_speed(p)
call_step_delay_from_speed(p) ==
    /\ prog = "test_Waters"
    /\ op' = "step_delay_from_speed"
    /\ pre' = Snapshot("step_delay_from_speed", NoLoc)
    /\ log' = IF loc.pct = None THEN log ELSE LastDelay
    /\ loc' = [NoLoc EXCEPT !.pct = p, !.delay = step_delay_from_speed(p)]
    /\ status' = "returned"
    /\ UNCHANGED <<prog, ServoKit, cli, pc, kit, configured, self, glob, released,
                   exc, faults>>

DelayNext ==
    \/ \E p \in DelayInputs : set_speed(p)
    \/ call__step_delay_from_speed
    \/ \E p \in DelayInputs : call_step_delay_from_speed(p)

DelaySpec == DelayInit /\ [][DelayNext]_vars

\* ----------------------------------------------------------- properties
NumWrites(l, ch) ==
    Cardinality({i \in DOMAIN l : l[i].kind = "write" /\ l[i].ch = ch})

IsAngleWrite(e) == e.kind = "write" /\ e.ok /\ e.val # None

MirroredOps == {"__init__", "press_up", "press_down", "press_neutral"}

\* a mirrored-pair operation has returned and nothing was called since
MirroredOpReturned ==
    /\ status = "returned"
    /\ \/ prog = "pp96" /\ pc = "pp_ready" /\ op \in MirroredOps
       \/ prog = "test_Waters" /\ pc = "w_idle" /\ loc.pair # None

\* C1: after construction and after every mirrored-pair operation that
\* completes, the secondary channel holds exactly 180 minus the angle the
\* primary channel holds.
C1_MirrorInvariant ==
    MirroredOpReturned =>
        kit[servo_2_channel] = Deg(180) - kit[servo_1_channel]

C1_Witness ==
    /\ MirroredOpReturned
    /\ prog = "test_Waters"
    /\ loc.cmd = "up"
    /\ kit[SERVO_CH_1] = Deg(UP_ANGLE)
    /\ kit[SERVO_CH_2] = Deg(150)

MoveOps == {"press_up", "press_down", "press_neutral", "plate_in", "plate_out"}

\* C2: a move operation called after shutdown() has completed performs no
\* channel write and does not return normally.
C2_NoMoveAfterShutdown ==
    (prog = "pp96" /\ released /\ op \in MoveOps) =>
        /\ status # "returned"
        /\ \A i \in DOMAIN log : log[i].kind # "write"

\* the mirrored move that has just returned is running, or has run, again
RepeatedMove ==
    /\ pre.repeat
    /\ pc \in {"pp_reset1", "pp_reset2", "pp_ready", "w_loop", "w_idle",
               "w_finally"}
    /\ op = "finally" => pc = "w_loop"

FinalWriteFailed ==
    /\ status = "raised"
    /\ \/ pc = "w_finally" /\ exc \in {"w_final", "w_afinal"}
       \/ /\ pc = "pp_ready"
          /\ \/ exc = "pp_jump"
             \/ exc = "pp_loop" /\ loc.angle = loc.target_angle

\* C4: when the final channel write of a move fails, the error reaches the
\* caller and the tracked positions are the ones the move was called with.
C4_FailedFinalWriteKeepsTracked ==
    FinalWriteFailed =>
        /\ self._actuator_current_angle = pre.tracked
        /\ glob._current_angle = pre.current
        /\ glob._actuator_angle = pre.actuator

\* press_up(hold_time=0.1) has returned, called at 90 / 90 with the default
\* servo angles and speed 100
PressUpEndToEnd ==
    /\ prog = "pp96"
    /\ op = "press_up"
    /\ status = "returned"
    /\ self.servo_up_angle = Deg(30)
    /\ self.servo_neutral_angle = Deg(90)
    /\ self.actuator_speed_percent = 100
    /\ loc.hold_time = Ms(100)
    /\ pre.primary = Deg(90)
    /\ pre.secondary = Deg(90)

InWalk ==
    /\ loc.step # 0
    /\ \/ prog = "pp96" /\ op \in {"plate_in", "plate_out", "shutdown"}
       \/ prog = "test_Waters" /\ op \in {"handle_command", "finally"}

WalkFrom ==
    CASE prog = "pp96" -> pre.tracked
      [] loc.pair # None -> pre.current
      [] OTHER -> pre.actuator

WalkChannel ==
    CASE prog = "pp96" -> actuator_channel
      [] loc.pair # None -> SERVO_CH_1
      [] OTHER -> SERVO_CH_ACT

IsWalkWrite(e) == IsAngleWrite(e) /\ e.ch = WalkChannel

\* the angles the walk has written to the channel it moves
WalkWrites == SelectSeq(log, IsWalkWrite)

\* C6: in a stepped walk from a to b (a # b) the i-th angle written is i
\* degrees from a toward b, and lies between a and b inclusive.
C6_MonotonicStepping ==
    InWalk /\ WalkFrom # loc.target_angle =>
        LET a == WalkFrom
            b == loc.target_angle
            d == IF b > a THEN Deg(1) ELSE Deg(-1)
        IN  \A i \in DOMAIN WalkWrites :
               /\ WalkWrites[i].val = a + i * d
               /\ min(a, b) <= WalkWrites[i].val
               /\ WalkWrites[i].val <= max(a, b)

\* the angle configured for the plate operation
PlateArg == IF op = "plate_in" THEN self.actuator_in_angle
                               ELSE self.actuator_out_angle

\* the clamp of the claim, not the one of the code
Bounded(x) == IF x < Deg(0) THEN Deg(0) ELSE IF x > Deg(180) THEN Deg(180) ELSE x

\* C7: plate_in / plate_out with a configured angle outside [0,180] ends
\* as the move to the nearest boundary does: the last angle written and the
\* tracked angle are 0 for a target below 0 and 180 for a target above 180.
C7_ActuatorTargetClamped ==
    (prog = "pp96" /\ op \in {"plate_in", "plate_out"} /\ status = "returned") =>
        /\ self._actuator_current_angle = Bounded(PlateArg)
        /\ log # <<>> => log[Len(log) - (IF loc.smooth THEN 1 ELSE 0)].val
                            = Bounded(PlateArg)

\* C8: every angle written to a channel, the detach value aside, lies in
\* [0,180].
C8_WritesInRange ==
    \A i \in DOMAIN log :
        (log[i].kind = "write" /\ log[i].val # None) =>
            (Deg(0) <= log[i].val /\ log[i].val <= Deg(180))

\* C9: a press that has returned wrote the pressed position (primary the
\* configured angle, secondary 180 minus it), held without a write, then
\* wrote neutral (primary neutral, secondary 180 minus neutral), and both
\* channels hold neutral; press_neutral wrote neutral only, with no hold.
C9_PressReturnsToNeutral ==
    (prog = "pp96" /\ status = "returned" /\ pc = "pp_ready") =>
        LET n == self.servo_neutral_angle
            p == IF op = "press_up" THEN self.servo_up_angle
                                    ELSE self.servo_down_angle
            toNeutral == <<WriteEv(servo_1_channel, n, TRUE),
                           WriteEv(servo_2_channel, Deg(180) - n, TRUE)>>
        IN  /\ op \in {"press_up", "press_down"} =>
                /\ log = <<WriteEv(servo_1_channel, p, TRUE),
                           WriteEv(servo_2_channel, Deg(180) - p, TRUE),
                           SleepEv(loc.hold_time)>> \o toNeutral
                /\ kit[servo_1_channel] = n
                /\ kit[servo_2_channel] = Deg(180) - n
            /\ op = "press_neutral" => log = toNeutral

C9_Witness ==
    /\ prog = "pp96"
    /\ status = "returned"
    /\ pc = "pp_ready"
    /\ op = "press_down"
    /\ self.servo_down_angle = Deg(150)
    /\ loc.hold_time = Ms(500)
    /\ Len(log) = 5

Nearest(p) == IF p < 1 THEN 1 ELSE IF p > 100 THEN 100 ELSE p

\* C10: the speed setting is always in 1..100; the speed given to the
\* constructor or to the speed command is stored as the nearest value of
\* 1..100, and neither is rejected for it.
C10_SpeedInRange ==
    /\ glob.SPEED_PERCENT \in 1..100
    /\ (prog = "pp96" /\ pc \notin {"pp_new", "pp_dead"}) =>
          self.actuator_speed_percent \in 1..100
    /\ (prog = "pp96" /\ op = "__init__" /\ exc # "pp_new") =>
          self.actuator_speed_percent = Nearest(loc.pct)
    /\ (prog = "pp96" /\ op = "__init__" /\ exc = "pp_new") =>
          ServoKit = "None"
    /\ (prog = "test_Waters" /\ op = "handle_command"
          /\ loc.cmd = "speed" /\ loc.pct # None) =>
          /\ status = "returned"
          /\ glob.SPEED_PERCENT = Nearest(loc.pct)

C10_Witness ==
    /\ prog = "test_Waters"
    /\ op = "handle_command"
    /\ loc.cmd = "speed"
    /\ loc.pct = 150
    /\ glob.SPEED_PERCENT = 100
\* the claimed delay for percent p, in 1/99 ms: ((100 - p) * 29 / 99) + 1 ms
ClaimedDelay(p) == (100 - p) * 29 + 99

\* C11: for every percent in 1..100 the delay function returns
\* ((100 - percent) * 29 / 99) + 1 ms, which is 30 ms at 1 and 1 ms at 100;
\* a call with a percent no lower than that of the call before returns no
\* longer a delay; the result is the same for the method of pp96.py and the
\* function of test_Waters.py and for every tracked position, and the call
\* leaves the channels, the tracked positions and the speed as they were.
C11_DelayMapping ==
    (status = "returned" /\ loc.pct \in 1 .. 100) =>
        /\ loc.delay = ClaimedDelay(loc.pct)
        /\ loc.pct = 1 => loc.delay = 30 * 99
        /\ loc.pct = 100 => loc.delay = 1 * 99
        /\ \A i \in DOMAIN log :
              (log[i].pct \in 1 .. 100 /\ log[i].pct <= loc.pct) =>
                  log[i].val >= loc.delay
        /\ self._actuator_current_angle = pre.tracked
        /\ self.actuator_speed_percent = pre.speed
        /\ glob._current_angle = pre.current
        /\ glob._actuator_angle = pre.actuator
        /\ glob.SPEED_PERCENT = SPEED_PERCENT
        /\ kit[servo_1_channel] = pre.primary
        /\ kit[servo_2_channel] = pre.secondary
        /\ kit[actuator_channel] = IF prog = "pp96" THEN pre.tracked
                                                     ELSE pre.actuator

C11_Witness ==
    /\ status = "returned"
    /\ prog = "pp96"
    /\ loc.pct = 100
    /\ loc.delay = 99
    /\ log # <<>>
    /\ log[1].pct = 1
    /\ log[1].val = 2970

\* C12: shutdown() never propagates an error to its caller, whichever
\* channel write fails while it runs.
C12_ShutdownNeverRaises ==
    (prog = "pp96" /\ op = "shutdown") => status # "raised"

\* C13: with ServoKit None the construction of PressureProcessor fails
\* before any channel is configured and before any angle is written, and
\* there is no instance to call a method of.
C13_NoDriverNoController ==
    (prog \in {"pp96", "cli"} /\ ServoKit = "None") =>
        /\ pc \in {"pp_new", "pp_dead", "c_import", "c_main", "c_except",
                   "c_done"}
        /\ op = "__init__" => (status = "raised" /\ exc = "pp_new")
        /\ configured = {}
        /\ \A ch \in Channels : kit[ch] = None
        /\ log = <<>>
        /\ self = NoSelf

C13_Witness ==
    /\ prog = "pp96"
    /\ ServoKit = "None"
    /\ op = "__init__"
    /\ status = "raised"
    /\ pc = "pp_dead"

\* the construction or an actuator operation has ended, by return or by
\* error
ActuatorOpEnded ==
    \/ /\ prog = "pp96"
       /\ pc = "pp_ready"
       /\ op \in {"__init__", "plate_in", "plate_out", "shutdown"}
    \/ /\ prog = "test_Waters"
       /\ pc \in {"w_idle", "w_finally"}
       /\ op = "handle_command"
       /\ loc.cmd \in {"push", "pull"}

TrackedActuator ==
    IF prog = "pp96" THEN self._actuator_current_angle ELSE glob._actuator_angle

IsActuatorAngleWrite(e) == IsAngleWrite(e) /\ e.ch = actuator_channel

\* the angles the operation has written to the actuator channel
ActuatorAngleWrites == SelectSeq(log, IsActuatorAngleWrite)

\* C14: when the construction or an actuator operation has ended, by
\* return or by error, the tracked actuator angle is the last angle
\* successfully written to the actuator channel.
C14_TrackedIsLastWritten ==
    (ActuatorOpEnded /\ ActuatorAngleWrites # <<>>) =>
        TrackedActuator = ActuatorAngleWrites[Len(ActuatorAngleWrites)].val

\* C19: without the driver library, execute_command of each of the five
\* commands constructs no controller, writes to no channel and returns 0.
C19_DryRunWithoutDriver ==
    (/\ prog = "cli"
     /\ ServoKit = "None"
     /\ pc = "c_done"
     /\ \/ cli.command \in {"up", "down", "neutral"}
        \/ cli.command = "plate" /\ cli.plate_cmd \in {"in", "out"}) =>
        /\ cli.rc = 0
        /\ log = <<>>
        /\ configured = {}
        /\ \A ch \in Channels : kit[ch] = None

\* a stepped move is in its loop
InLoop == pc \in {"pp_loop", "w_loop", "w_aloop"}

\* C15: every stepped move, once started, leaves its loop after finitely
\* many steps.
C15_MoveTerminates == InLoop ~> ~InLoop

\* a mirrored walk of test_Waters.py is running or has run
InMirroredWalk ==
    /\ prog = "test_Waters"
    /\ op \in {"handle_command", "finally"}
    /\ loc.pair # None

IsPrimaryAngleWrite(e) == IsAngleWrite(e) /\ e.ch = SERVO_CH_1

\* the events of the last two turns of the walk; an operation only appends
\* to log, so every event is among them in the state that appended it
LastTurns == {i \in DOMAIN log : i > Len(log) - 6}

\* C16: in a mirrored walk every primary write of an angle p is followed at
\* once by the secondary write of 180 - p, before the step's delay and
\* before the next primary write; every delay follows a completed pair of
\* writes; and a primary write is at most one degree from the one before it
\* (from the tracked angle, for the first).
C16_LockstepMirroring ==
    InMirroredWalk =>
        \A i \in LastTurns :
            /\ IsPrimaryAngleWrite(log[i]) =>
                  /\ i + 1 <= Len(log)
                  /\ log[i + 1].kind = "write"
                  /\ log[i + 1].ch = SERVO_CH_2
                  /\ log[i + 1].val = Deg(180) - log[i].val
                  /\ i > 1 => (i > 3 /\ IsPrimaryAngleWrite(log[i - 3]))
                  /\ abs(log[i].val - (IF i > 3 THEN log[i - 3].val
                                                ELSE pre.current)) <= Deg(1)
            /\ log[i].kind = "sleep" =>
                  /\ i >= 3
                  /\ IsPrimaryAngleWrite(log[i - 2])
                  /\ IsAngleWrite(log[i - 1])
                  /\ log[i - 1].ch = SERVO_CH_2

C16_Witness ==
    /\ InMirroredWalk
    /\ pc = "w_loop"
    /\ loc.cmd = "up"
    /\ Len(log) = 6
    /\ log[4].val = Deg(88)
    /\ log[5].val = Deg(92)

\* the part of shutdown an event belongs to: the neutral writes, the walk
\* of the actuator, the pause, the detaching writes
ShutdownPart(e) ==
    CASE e.kind = "write" /\ e.val = None -> 4
      [] e.kind = "sleep" /\ e.val = Ms(200) -> 3
      [] e.kind = "write" /\ e.ch \in {servo_1_channel, servo_2_channel} -> 1
      [] OTHER -> 2

NoFailedWrite == \A i \in DOMAIN log : log[i].ok

\* C17: shutdown writes neutral to the pair first, then walks the actuator
\* to the resting angle, pauses, and only then detaches; no angle write
\* follows a detach; when no write fails, shutdown returns with the
\* actuator tracked at the resting angle and all three channels detached,
\* primary, secondary and actuator in this order.
C17_ShutdownOrder ==
    (prog \in {"pp96", "cli"} /\ op = "shutdown") =>
        /\ \A i \in DOMAIN log :
              i > 1 => ShutdownPart(log[i - 1]) <= ShutdownPart(log[i])
        /\ Len(log) >= 1 =>
              /\ log[1].kind = "write"
              /\ log[1].ch = servo_1_channel
              /\ log[1].val = self.servo_neutral_angle
        /\ Len(log) >= 2 =>
              /\ log[2].kind = "write"
              /\ log[2].ch = servo_2_channel
              /\ log[2].val = Deg(180) - self.servo_neutral_angle
        /\ \A i \in DOMAIN log :
              (i > 2 /\ ShutdownPart(log[i]) = 2 /\ log[i].kind = "write") =>
                  log[i].ch = actuator_channel
        /\ (status = "returned" /\ NoFailedWrite) =>
              /\ \A ch \in Channels : kit[ch] = None
              /\ self._actuator_current_angle = Bounded(self.actuator_out_angle)
              /\ Len(log) >= 6
              /\ SubSeq(log, Len(log) - 3, Len(log)) =
                    <<SleepEv(Ms(200)),
                      WriteEv(servo_1_channel, None, TRUE),
                      WriteEv(servo_2_channel, None, TRUE),
                      WriteEv(actuator_channel, None, TRUE)>>

C17_Witness ==
    /\ prog = "pp96"
    /\ op = "shutdown"
    /\ status = "returned"
    /\ NoFailedWrite
    /\ pre.tracked = Deg(0)
    /\ self._actuator_current_angle = Deg(5)
    /\ Len(log) = 16

\* C18: the construction configures the three channels before it writes,
\* then writes one angle to each channel and no more: neutral to the
\* primary, 180 - neutral to the secondary, the resting angle to the
\* actuator; it returns with the tracked actuator angle at the resting
\* angle.
C18_InitJumps ==
    (prog \in {"pp96", "cli"} /\ op = "__init__") =>
        LET jumps == <<WriteEv(servo_1_channel, self.servo_neutral_angle, TRUE),
                       WriteEv(servo_2_channel,
                               Deg(180) - self.servo_neutral_angle, TRUE),
                       WriteEv(actuator_channel, self.actuator_out_angle, TRUE)>>
        IN  /\ log # <<>> => configured = Channels
            /\ Len(log) <= 3
            /\ \A i \in DOMAIN log :
                  /\ log[i].kind = "write"
                  /\ log[i].ch = jumps[i].ch
                  /\ log[i].val = jumps[i].val
            /\ status = "returned" =>
                  /\ log = jumps
                  /\ configured = Channels
                  /\ self._actuator_current_angle = self.actuator_out_angle
                  /\ \A ch \in Channels : kit[ch] = jumps[ch + 1].val

C18_Witness ==
    /\ prog = "pp96"
    /\ op = "__init__"
    /\ status = "returned"
    /\ self.actuator_out_angle = Deg(5)
    /\ kit[actuator_channel] = Deg(5)
    /\ Len(log) = 3

\* C20: a press operation writes nothing to the actuator channel and
\* leaves the tracked actuator angle and the speed as they were; a plate
\* operation writes nothing to the two servo channels, which keep their
\* angles, and leaves the speed as it was.
C20_GroupsIndependent ==
    /\ (prog \in {"pp96", "cli"}
          /\ op \in {"press_up", "press_down", "press_neutral"}) =>
          /\ \A i \in DOMAIN log :
                log[i].kind = "write" => log[i].ch # actuator_channel
          /\ self._actuator_current_angle = pre.tracked
          /\ self.actuator_speed_percent = pre.speed
    /\ (prog \in {"pp96", "cli"} /\ op \in {"plate_in", "plate_out"}) =>
          /\ \A i \in DOMAIN log :
                log[i].kind = "write" => log[i].ch = actuator_channel
          /\ kit[servo_1_channel] = pre.primary
          /\ kit[servo_2_channel] = pre.secondary
          /\ self.actuator_speed_percent = pre.speed

C20_Witness ==
    /\ prog = "pp96"
    /\ op = "press_up"
    /\ status = "returned"
    /\ pre.tracked = Deg(0)
    /\ kit[actuator_channel] = Deg(0)
    /\ Len(log) = 5

\* shutdown() has returned, or the finally block of main has run
ShutdownDone ==
    \/ /\ prog \in {"pp96", "cli"}
       /\ op = "shutdown"
       /\ status = "returned"
    \/ /\ prog = "test_Waters"
       /\ op = "finally"
       /\ pc = "w_exit"

\* the detach of channel ch was attempted / was attempted and failed
DetachAttempted(ch) ==
    \E i \in DOMAIN log :
        log[i].kind = "write" /\ log[i].ch = ch /\ log[i].val = None

DetachFailed(ch) ==
    \E i \in DOMAIN log :
        log[i].kind = "write" /\ log[i].ch = ch /\ log[i].val = None /\ ~log[i].ok

\* C21: when shutdown has returned (or the finally block has run), the
\* detach of every channel was attempted, whichever detach failed, and
\* every channel whose own detach did not fail is detached.
C21_DetachReachesEveryChannel ==
    ShutdownDone =>
        \A ch \in Channels :
            /\ DetachAttempted(ch)
            /\ ~DetachFailed(ch) => kit[ch] = None
====
